---- MODULE Spec2Model ----
(***************************************************************************)
(* enTitan (src/src/main.rs): the locale config store (update_locales,     *)
(* update_config_file_locales), the launch sequence worker thread and the  *)
(* per-frame handler EntitanApp::update that drives both.                  *)
(*                                                                         *)
(* Strings are sequences of one-character strings, so that lines(), trim(),*)
(* starts_with() and find('"') are computed character by character.  The   *)
(* one abstraction is PAD, a single symbol standing for a block of         *)
(* PadBytes filler bytes (a long comment), which lets file sizes reach the *)
(* 8192-byte guard.  Option<T> is a sequence of length 0 (None) or 1       *)
(* (Some(x)).                                                              *)
(***************************************************************************)
EXTENDS Integers, Sequences, FiniteSets, TLC

VARIABLES
    app,        \* the fields of EntitanApp (main.rs 77-102)
    files,      \* the file system: path -> [kind, content]
    watched,    \* the paths registered with the notify watcher
    run_chan,   \* messages in flight on run_tx / run_rx
    watch_chan, \* events in flight on watch_tx / watcher_rx
    workers,    \* the live run worker threads, in spawn order
    tick_pc,    \* position of the UI thread inside EntitanApp::update
    sent,       \* history: messages sent by workers since the last accepted Run
    drained,    \* history: messages received from run_rx since the last accepted Run
    spawned,    \* history: Command::spawn attempts since the last accepted Run
    op          \* history: the last store operation or frame input, and its result

vars == <<app, files, watched, run_chan, watch_chan, workers, tick_pc,
          sent, drained, spawned, op>>

None == <<>>
Some(x) == <<x>>

(***************************************************************************)
(* Bounds of the model.                                                    *)
(***************************************************************************)
\* Most lines a config file of the model holds before an update.
MaxLines == 2

(***************************************************************************)
(* Program constants.                                                      *)
(***************************************************************************)
SizeGuard == 8192
CountdownAB == 10
CountdownBA == 60
MaxLocaleLen == 4

\* The filler block: PAD stands for PadBytes bytes that are neither
\* whitespace, nor a quote, nor a line break.
PAD == "#PAD"
PadBytes == SizeGuard - 23

(***************************************************************************)
(* Characters and strings.                                                 *)
(***************************************************************************)
UpperCase == <<"A","B","C","D","E","F","G","H","I","J","K","L","M",
               "N","O","P","Q","R","S","T","U","V","W","X","Y","Z">>
LowerCase == <<"a","b","c","d","e","f","g","h","i","j","k","l","m",
               "n","o","p","q","r","s","t","u","v","w","x","y","z">>

Range(f) == { f[i] : i \in DOMAIN f }

IsAsciiAlphabetic(c) == c \in Range(UpperCase) \cup Range(LowerCase)

ToAsciiLowercase(c) ==
    IF c \in Range(UpperCase)
    THEN LowerCase[CHOOSE i \in 1..26 : UpperCase[i] = c]
    ELSE c

EqIgnoreAsciiCase(a, b) ==
    /\ Len(a) = Len(b)
    /\ \A i \in 1..Len(a) : ToAsciiLowercase(a[i]) = ToAsciiLowercase(b[i])

IsWhitespace(c) == c \in {" ", "\t", "\r", "\n"}

RECURSIVE TrimStart(_)
TrimStart(s) ==
    IF s # <<>> /\ IsWhitespace(Head(s)) THEN TrimStart(Tail(s)) ELSE s

RECURSIVE TrimEnd(_)
TrimEnd(s) ==
    IF s # <<>> /\ IsWhitespace(s[Len(s)])
    THEN TrimEnd(SubSeq(s, 1, Len(s) - 1))
    ELSE s

Trim(s) == TrimEnd(TrimStart(s))

StartsWith(s, prefix) ==
    /\ Len(s) >= Len(prefix)
    /\ SubSeq(s, 1, Len(prefix)) = prefix

\* str::find of one character: Some(index, counted from 0) or None.
Find(s, c) ==
    IF \E i \in 1..Len(s) : s[i] = c
    THEN Some((CHOOSE i \in 1..Len(s) : s[i] = c /\ \A j \in 1..(i-1) : s[j] # c) - 1)
    ELSE None

\* str::lines: split after every "\n"; a piece that ended in "\n" loses it
\* and then one "\r" before it; a last piece without "\n" is kept as it is.
RECURSIVE SplitInclusive(_)
SplitInclusive(s) ==
    IF s = <<>> THEN <<>>
    ELSE LET nl == Find(s, "\n") IN
         IF nl = None THEN <<s>>
         ELSE <<SubSeq(s, 1, nl[1] + 1)>> \o SplitInclusive(SubSeq(s, nl[1] + 2, Len(s)))

LinesMap(piece) ==
    IF piece # <<>> /\ piece[Len(piece)] = "\n"
    THEN LET l == SubSeq(piece, 1, Len(piece) - 1) IN
         IF l # <<>> /\ l[Len(l)] = "\r" THEN SubSeq(l, 1, Len(l) - 1) ELSE l
    ELSE piece

Lines(s) == LET ps == SplitInclusive(s) IN [i \in 1..Len(ps) |-> LinesMap(ps[i])]

\* [String]::join
RECURSIVE Join(_, _)
Join(ls, sep) ==
    IF ls = <<>> THEN <<>>
    ELSE IF Len(ls) = 1 THEN ls[1]
    ELSE ls[1] \o sep \o Join(Tail(ls), sep)

\* Length in bytes (all characters of the model are ASCII).
RECURSIVE ByteLen(_)
ByteLen(s) ==
    IF s = <<>> THEN 0
    ELSE (IF Head(s) = PAD THEN PadBytes ELSE 1) + ByteLen(Tail(s))

SetAudioLocale == <<"S","E","T"," ","a","u","d","i","o","L","o","c","a","l","e">>
SetTextLocale == <<"S","E","T"," ","t","e","x","t","L","o","c","a","l","e">>
FileTooLarge == <<"(","f","i","l","e"," ","t","o","o"," ","l","a","r","g","e",")">>
EnUS == <<"e","n","U","S">>
Exe == <<"e","x","e">>
Wtf == <<"w","t","f">>

(***************************************************************************)
(* Paths and the file system.                                              *)
(***************************************************************************)
Path(name, ext) == [name |-> name, ext |-> ext]
EmptyPath == Path("", <<>>)

NoFile == [kind |-> "none", content |-> <<>>]
Dir == [kind |-> "dir", content |-> <<>>]
File(content) == [kind |-> "file", content |-> content]

Exists(fs, p) == p \in DOMAIN fs /\ fs[p].kind # "none"
IsFile(fs, p) == p \in DOMAIN fs /\ fs[p].kind = "file"

\* Mutant: the extension is compared without p.is_file().
IsFileWithExt_AnyKind(fs, p, ext) ==
    /\ p.ext # <<>>
    /\ EqIgnoreAsciiCase(p.ext, ext)

\* main.rs 887-894
IsFileWithExt(fs, p, ext) ==
    /\ IsFile(fs, p)
    /\ p.ext # <<>>
    /\ EqIgnoreAsciiCase(p.ext, ext)

\* notify: watch() of a path that does not exist fails (the code drops the
\* error); unwatch() of a path that is not watched fails the same way.
Watch(w, fs, p) == IF Exists(fs, p) THEN w \cup {p} ELSE w
Unwatch(w, p) == w \ {p}

MetadataLen(fs, p) == ByteLen(fs[p].content)

\* fs::read_to_string: only a regular file can be read.
ReadToString(fs, p) == IF IsFile(fs, p) THEN Some(fs[p].content) ELSE None

(***************************************************************************)
(* LocaleConfigStore: update_locales (main.rs 157-219).                    *)
(* A store state s is a record [app, files, watched, io, refreshes]; io is *)
(* the log of the files opened so far, each with its size when it was      *)
(* opened, and refreshes the log of the pairs that the re-parses cached.   *)
(***************************************************************************)
\* main.rs 203-208 and 210-215: the text between the first two quotes.
ExtractQuoted(s) ==
    LET first == Find(s, "\"") IN
    IF first = None THEN None
    ELSE LET rest == SubSeq(s, first[1] + 2, Len(s))
             end == Find(rest, "\"")
         IN  IF end = None THEN None ELSE Some(SubSeq(rest, 1, end[1]))

\* Mutant: a value found earlier in the file is not overwritten.
ScanLine_FirstWins(acc, line) ==
    LET s == Trim(line) IN
    IF StartsWith(s, SetAudioLocale)
    THEN (IF ExtractQuoted(s) # None /\ acc.audio = None
          THEN [acc EXCEPT !.audio = ExtractQuoted(s)] ELSE acc)
    ELSE IF StartsWith(s, SetTextLocale)
    THEN (IF ExtractQuoted(s) # None /\ acc.text = None
          THEN [acc EXCEPT !.text = ExtractQuoted(s)] ELSE acc)
    ELSE acc

\* One turn of the loop at main.rs 200-217; acc is [audio, text].
ScanLine(acc, line) ==
    LET s == Trim(line) IN
    IF StartsWith(s, SetAudioLocale)
    THEN (IF ExtractQuoted(s) # None
          THEN [acc EXCEPT !.audio = ExtractQuoted(s)] ELSE acc)
    ELSE IF StartsWith(s, SetTextLocale)
    THEN (IF ExtractQuoted(s) # None
          THEN [acc EXCEPT !.text = ExtractQuoted(s)] ELSE acc)
    ELSE acc

RECURSIVE ScanLines(_, _)
ScanLines(acc, ls) ==
    IF ls = <<>> THEN acc ELSE ScanLines(ScanLine(acc, Head(ls)), Tail(ls))

Access(kind, fs, p) == [kind |-> kind, path |-> p, size |-> ByteLen(fs[p].content)]

\* Mutant: the refresh lets a file of exactly 8192 bytes through.
ParseConfig_GuardOffByOne(fs, cfg) ==
    LET cleared == [audio |-> None, text |-> None, io |-> <<>>] IN
    IF cfg = EmptyPath THEN cleared
    ELSE IF ~Exists(fs, cfg) THEN cleared
    ELSE IF MetadataLen(fs, cfg) > SizeGuard
    THEN [audio |-> Some(FileTooLarge), text |-> Some(FileTooLarge), io |-> <<>>]
    ELSE LET opened == [cleared EXCEPT !.io = <<Access("read", fs, cfg)>>] IN
         IF ReadToString(fs, cfg) = None THEN opened
         ELSE ScanLines(opened, Lines(ReadToString(fs, cfg)[1]))

\* main.rs 180-218: the cached pair update_locales computes for path cfg,
\* and the file it opens on the way.
ParseConfig(fs, cfg) ==
    LET cleared == [audio |-> None, text |-> None, io |-> <<>>] IN
    IF cfg = EmptyPath THEN cleared
    ELSE IF ~Exists(fs, cfg) THEN cleared
    ELSE IF MetadataLen(fs, cfg) >= SizeGuard
    THEN [audio |-> Some(FileTooLarge), text |-> Some(FileTooLarge), io |-> <<>>]
    ELSE LET opened == [cleared EXCEPT !.io = <<Access("read", fs, cfg)>>] IN
         IF ReadToString(fs, cfg) = None THEN opened
         ELSE ScanLines(opened, Lines(ReadToString(fs, cfg)[1]))

\* main.rs 170-178: the watcher registration moves from the old path to cfg.
Rewatch(s, old_path, cfg) ==
    IF ~s.app.watcher THEN s.watched
    ELSE LET unwatched == IF old_path # None
                          THEN Unwatch(s.watched, old_path[1]) ELSE s.watched
         IN  IF cfg # EmptyPath THEN Watch(unwatched, s.files, cfg) ELSE unwatched

\* Mutant: the cached values are not cleared before the parse.
UpdateLocales_NoClear(s) ==
    LET cfg == s.app.config_wtf_path IN
    IF s.app.last_config_path = Some(cfg) THEN s
    ELSE LET old_path == s.app.last_config_path
             parsed == ParseConfig(s.files, cfg)
             audio == IF parsed.audio = None THEN s.app.audio_locale ELSE parsed.audio
             text == IF parsed.text = None THEN s.app.text_locale ELSE parsed.text
         IN  [s EXCEPT
                !.app.last_config_path = IF cfg = EmptyPath THEN None ELSE Some(cfg),
                !.watched = Rewatch(s, old_path, cfg),
                !.app.audio_locale = audio,
                !.app.text_locale = text,
                !.io = @ \o parsed.io,
                !.refreshes = Append(@, [path |-> cfg, audio |-> audio, text |-> text])]

\* Mutant: no early return, every call parses the file again.
UpdateLocales_NoCache(s) ==
    LET cfg == s.app.config_wtf_path
        old_path == s.app.last_config_path
        parsed == ParseConfig(s.files, cfg)
    IN  [s EXCEPT
           !.app.last_config_path = IF cfg = EmptyPath THEN None ELSE Some(cfg),
           !.watched = Rewatch(s, old_path, cfg),
           !.app.audio_locale = parsed.audio,
           !.app.text_locale = parsed.text,
           !.io = @ \o parsed.io,
           !.refreshes = Append(@, [path |-> cfg, audio |-> parsed.audio,
                                    text |-> parsed.text])]

\* Mutant: the text locale is cached from the audio locale of the last refresh.
UpdateLocales_StaleText(s) ==
    LET cfg == s.app.config_wtf_path IN
    IF s.app.last_config_path = Some(cfg) THEN s
    ELSE LET old_path == s.app.last_config_path
             parsed == ParseConfig(s.files, cfg)
         IN  [s EXCEPT
                !.app.last_config_path = IF cfg = EmptyPath THEN None ELSE Some(cfg),
                !.watched = Rewatch(s, old_path, cfg),
                !.app.audio_locale = parsed.audio,
                !.app.text_locale = s.app.audio_locale,
                !.io = @ \o parsed.io,
                !.refreshes = Append(@, [path |-> cfg, audio |-> parsed.audio,
                                         text |-> s.app.audio_locale])]

UpdateLocales(s) ==
    LET cfg == s.app.config_wtf_path IN
    IF s.app.last_config_path = Some(cfg) THEN s
    ELSE LET old_path == s.app.last_config_path
             parsed == ParseConfig(s.files, cfg)
         IN  [s EXCEPT
                !.app.last_config_path = IF cfg = EmptyPath THEN None ELSE Some(cfg),
                !.watched = Rewatch(s, old_path, cfg),
                !.app.audio_locale = parsed.audio,
                !.app.text_locale = parsed.text,
                !.io = @ \o parsed.io,
                !.refreshes = Append(@, [path |-> cfg, audio |-> parsed.audio,
                                         text |-> parsed.text])]

(***************************************************************************)
(* LocaleConfigStore: update_config_file_locales (main.rs 223-263).        *)
(***************************************************************************)
\* format!("SET audioLocale \"{}\"", preferred) and its twin.
FormatAudio(l) == SetAudioLocale \o <<" ", "\"">> \o l \o <<"\"">>
FormatText(l) == SetTextLocale \o <<" ", "\"">> \o l \o <<"\"">>

\* main.rs 240-249: one turn of the rewriting loop.
RewriteLine(line, l) ==
    LET s == Trim(line) IN
    IF StartsWith(s, SetAudioLocale) THEN FormatAudio(l)
    ELSE IF StartsWith(s, SetTextLocale) THEN FormatText(l)
    ELSE line

FoundAudio(ls) == \E i \in 1..Len(ls) : StartsWith(Trim(ls[i]), SetAudioLocale)
FoundText(ls) ==
    \E i \in 1..Len(ls) : /\ ~StartsWith(Trim(ls[i]), SetAudioLocale)
                          /\ StartsWith(Trim(ls[i]), SetTextLocale)

\* Mutant: only the first line of each key is rewritten.
RewriteLines_FirstOnly(ls, l) ==
    [i \in 1..Len(ls) |->
        IF \E j \in 1..(i - 1) : RewriteLine(ls[j], l) = RewriteLine(ls[i], l)
                                   /\ RewriteLine(ls[i], l) # ls[i]
        THEN ls[i] ELSE RewriteLine(ls[i], l)]
        \o (IF FoundAudio(ls) THEN <<>> ELSE <<FormatAudio(l)>>)
        \o (IF FoundText(ls) THEN <<>> ELSE <<FormatText(l)>>)

\* Mutant: both lines are appended whether or not the keys were found.
RewriteLines_AlwaysAppends(ls, l) ==
    [i \in 1..Len(ls) |-> RewriteLine(ls[i], l)]
        \o <<FormatAudio(l)>> \o <<FormatText(l)>>

\* main.rs 237-255: the lines written back.
RewriteLines(ls, l) ==
    [i \in 1..Len(ls) |-> RewriteLine(ls[i], l)]
        \o (IF FoundAudio(ls) THEN <<>> ELSE <<FormatAudio(l)>>)
        \o (IF FoundText(ls) THEN <<>> ELSE <<FormatText(l)>>)

\* main.rs 256-257: join("\n") and a trailing newline.
RewriteContent(contents, l) == Join(RewriteLines(Lines(contents), l), <<"\n">>) \o <<"\n">>

ErrNotSet == "Config.wtf path is not set"
ErrNotFile == "Config.wtf path does not exist or is not a file"
ErrTooLarge == "Config.wtf file is too large to safely edit"

\* Mutant: the path is not checked with is_file().
UpdateResult_NoIsFile(s) ==
    LET cfg == s.app.config_wtf_path IN
    IF cfg = EmptyPath THEN ErrNotSet
    ELSE IF ~Exists(s.files, cfg) THEN ErrNotFile
    ELSE IF MetadataLen(s.files, cfg) >= SizeGuard THEN ErrTooLarge
    ELSE "Ok"

\* The Result update_config_file_locales returns: "Ok" or the Err text.
UpdateResult(s) ==
    LET cfg == s.app.config_wtf_path IN
    IF cfg = EmptyPath THEN ErrNotSet
    ELSE IF ~Exists(s.files, cfg) \/ ~IsFile(s.files, cfg) THEN ErrNotFile
    ELSE IF MetadataLen(s.files, cfg) >= SizeGuard THEN ErrTooLarge
    ELSE "Ok"

\* The store state update_config_file_locales leaves behind.
UpdateConfigFileLocales(s) ==
    IF UpdateResult(s) # "Ok" THEN s
    ELSE LET cfg == s.app.config_wtf_path
             out == RewriteContent(s.files[cfg].content, s.app.preferred_locale)
             written == [s EXCEPT !.files[cfg] = File(out),
                                  !.app.last_config_path = None,
                                  !.io = @ \o <<Access("read", s.files, cfg),
                                                Access("write", s.files, cfg)>>]
         IN  UpdateLocales(written)

(***************************************************************************)
(* Progress messages and status texts.  A message is its format string and *)
(* the number it carries (0 when it carries none); the cause of a failed   *)
(* spawn is left as <cause>.                                               *)
(***************************************************************************)
Msg(text, n) == [text |-> text, n |-> n]
Finished == Msg("FINISHED", 0)
LaunchedA == Msg("Launched Battle.net", 0)
FailedA == Msg("Failed to launch Battle.net: <cause>", 0)
WaitB(rem) == Msg("Waiting to launch WoW: {}s", rem)
LaunchedB == Msg("Launched WoW", 0)
FailedB == Msg("Failed to launch WoW: <cause>", 0)
WaitA2(rem) == Msg("Waiting before re-launching Battle.net: {}s", rem)
LaunchedA2 == Msg("Launched Battle.net (second)", 0)
FailedA2 == Msg("Failed to launch Battle.net (second): <cause>", 0)
Status(text) == Some(Msg(text, 0))

(***************************************************************************)
(* The run worker thread (main.rs 605-649).  A worker is a record          *)
(* [pc, rem, battle_path, wow_path]; it leaves `workers` when it returns.  *)
(***************************************************************************)
RemoveAt(q, i) == SubSeq(q, 1, i - 1) \o SubSeq(q, i + 1, Len(q))

NewWorker(battle, wow) ==
    [pc |-> "launchA", rem |-> 0, battle_path |-> battle, wow_path |-> wow]

\* Mutant: a channel of capacity one, whose send waits for the consumer.
WorkerStep_Bounded(i, w, msg, path, ok) ==
    /\ run_chan = <<>>
    /\ workers' = [workers EXCEPT ![i] = w]
    /\ run_chan' = Append(run_chan, msg)
    /\ sent' = Append(sent, msg)
    /\ spawned' = IF path = None THEN spawned
                  ELSE Append(spawned, [path |-> path[1], ok |-> ok])
    /\ UNCHANGED <<app, files, watched, watch_chan, tick_pc, drained, op>>

\* tx.send on the unbounded mpsc channel of main.rs 105: never waits.
WorkerStep(i, w, msg, path, ok) ==
    /\ workers' = [workers EXCEPT ![i] = w]
    /\ run_chan' = Append(run_chan, msg)
    /\ sent' = Append(sent, msg)
    /\ spawned' = IF path = None THEN spawned
                  ELSE Append(spawned, [path |-> path[1], ok |-> ok])
    /\ UNCHANGED <<app, files, watched, watch_chan, tick_pc, drained, op>>

\* Mutant: a failed first launch does not return.
LaunchA_NoReturn(i) ==
    /\ workers[i].pc = "launchA"
    /\ \E ok \in BOOLEAN :
         WorkerStep(i,
                    [workers[i] EXCEPT !.pc = "countAB", !.rem = CountdownAB],
                    IF ok THEN LaunchedA ELSE FailedA,
                    Some(workers[i].battle_path), ok)

\* main.rs 610-616
LaunchA(i) ==
    /\ workers[i].pc = "launchA"
    /\ \E ok \in BOOLEAN :
         WorkerStep(i,
                    IF ok THEN [workers[i] EXCEPT !.pc = "countAB", !.rem = CountdownAB]
                    ELSE [workers[i] EXCEPT !.pc = "failedA"],
                    IF ok THEN LaunchedA ELSE FailedA,
                    Some(workers[i].battle_path), ok)

\* Mutant: the countdown stops one second early, (2..=10).rev().
CountAB_StopsAtTwo(i) ==
    /\ workers[i].pc = "countAB"
    /\ WorkerStep(i,
                  IF workers[i].rem > 2
                  THEN [workers[i] EXCEPT !.rem = @ - 1]
                  ELSE [workers[i] EXCEPT !.pc = "launchB", !.rem = 0],
                  WaitB(workers[i].rem), None, TRUE)

\* main.rs 619-622: one turn of the loop (send, then sleep one second).
CountAB(i) ==
    /\ workers[i].pc = "countAB"
    /\ WorkerStep(i,
                  IF workers[i].rem > 1
                  THEN [workers[i] EXCEPT !.rem = @ - 1]
                  ELSE [workers[i] EXCEPT !.pc = "launchB", !.rem = 0],
                  WaitB(workers[i].rem), None, TRUE)

\* Mutant: a failed launch of WoW does not return.
LaunchB_NoReturn(i) ==
    /\ workers[i].pc = "launchB"
    /\ \E ok \in BOOLEAN :
         WorkerStep(i,
                    [workers[i] EXCEPT !.pc = "countBA", !.rem = CountdownBA],
                    IF ok THEN LaunchedB ELSE FailedB,
                    Some(workers[i].wow_path), ok)

\* main.rs 624-630
LaunchB(i) ==
    /\ workers[i].pc = "launchB"
    /\ \E ok \in BOOLEAN :
         WorkerStep(i,
                    IF ok THEN [workers[i] EXCEPT !.pc = "countBA", !.rem = CountdownBA]
                    ELSE [workers[i] EXCEPT !.pc = "failedB"],
                    IF ok THEN LaunchedB ELSE FailedB,
                    Some(workers[i].wow_path), ok)

\* Mutant: the second countdown is cut short, (56..=60).rev().
CountBA_StopsEarly(i) ==
    /\ workers[i].pc = "countBA"
    /\ WorkerStep(i,
                  IF workers[i].rem > 56
                  THEN [workers[i] EXCEPT !.rem = @ - 1]
                  ELSE [workers[i] EXCEPT !.pc = "relaunchA", !.rem = 0],
                  WaitA2(workers[i].rem), None, TRUE)

\* main.rs 633-639
CountBA(i) ==
    /\ workers[i].pc = "countBA"
    /\ WorkerStep(i,
                  IF workers[i].rem > 1
                  THEN [workers[i] EXCEPT !.rem = @ - 1]
                  ELSE [workers[i] EXCEPT !.pc = "relaunchA", !.rem = 0],
                  WaitA2(workers[i].rem), None, TRUE)

\* Mutant: the relaunch reads the path field of the application, not the
\* clone the thread owns.
RelaunchA_CurrentPath(i) ==
    /\ workers[i].pc = "relaunchA"
    /\ \E ok \in BOOLEAN :
         WorkerStep(i, [workers[i] EXCEPT !.pc = "finish"],
                    IF ok THEN LaunchedA2 ELSE FailedA2,
                    Some(app.battle_net_path), ok)

\* Mutant: a failed relaunch returns like the two failures before it,
\* but without its FINISHED.
RelaunchA_ReturnsOnFailure(i) ==
    /\ workers[i].pc = "relaunchA"
    /\ \/ WorkerStep(i, [workers[i] EXCEPT !.pc = "finish"], LaunchedA2,
                     Some(workers[i].battle_path), TRUE)
       \/ /\ workers' = RemoveAt(workers, i)
          /\ run_chan' = Append(run_chan, FailedA2)
          /\ sent' = Append(sent, FailedA2)
          /\ spawned' = Append(spawned, [path |-> workers[i].battle_path, ok |-> FALSE])
          /\ UNCHANGED <<app, files, watched, watch_chan, tick_pc, drained, op>>

\* main.rs 641-646
RelaunchA(i) ==
    /\ workers[i].pc = "relaunchA"
    /\ \E ok \in BOOLEAN :
         WorkerStep(i, [workers[i] EXCEPT !.pc = "finish"],
                    IF ok THEN LaunchedA2 ELSE FailedA2,
                    Some(workers[i].battle_path), ok)

\* Mutant: after a failed first launch the thread sends FINISHED and goes on
\* to the end of the closure, where it sends FINISHED again.
SendFinished_Twice(i) ==
    /\ workers[i].pc \in {"failedA", "failedB", "finish"}
    /\ workers' = IF workers[i].pc = "failedA"
                  THEN [workers EXCEPT ![i].pc = "finish"]
                  ELSE RemoveAt(workers, i)
    /\ run_chan' = Append(run_chan, Finished)
    /\ sent' = Append(sent, Finished)
    /\ UNCHANGED <<app, files, watched, watch_chan, tick_pc, drained, spawned, op>>

\* main.rs 612-613, 626-627, 648: the last send, after which the thread returns.
SendFinished(i) ==
    /\ workers[i].pc \in {"failedA", "failedB", "finish"}
    /\ workers' = RemoveAt(workers, i)
    /\ run_chan' = Append(run_chan, Finished)
    /\ sent' = Append(sent, Finished)
    /\ UNCHANGED <<app, files, watched, watch_chan, tick_pc, drained, spawned, op>>

Worker ==
    \E i \in 1..Len(workers) :
        \/ LaunchA(i)
        \/ CountAB(i)
        \/ LaunchB(i)
        \/ CountBA(i)
        \/ RelaunchA(i)
        \/ SendFinished(i)

(***************************************************************************)
(* EntitanApp::update, first part (main.rs 344-651): the refresh, the      *)
(* widgets in the order the code lays them out, and the Run button.        *)
(*                                                                         *)
(* The input of one frame is a record ev:                                  *)
(*   pref_edit   Some(text typed into the Preferred Locale field) or None  *)
(*   path_field  "none", or the path field edited: "battle", "config",     *)
(*               "wow"; path_text is its new text                          *)
(*   click       "none" or the button clicked: "Update", "BrowseBattle",   *)
(*               "BrowseConfig", "BrowseWow", "Run"                        *)
(*   pick        the file the dialog of a Browse button returned, or None  *)
(***************************************************************************)
Ev(pref_edit, path_field, path_text, click, pick) ==
    [pref_edit |-> pref_edit, path_field |-> path_field, path_text |-> path_text,
     click |-> click, pick |-> pick]
NoEv == Ev(None, "none", EmptyPath, "none", None)
EditPreferred(l) == Ev(Some(l), "none", EmptyPath, "none", None)
EditPath(field, p) == Ev(None, field, p, "none", None)
Click(button) == Ev(None, "none", EmptyPath, button, None)
Browse(button, p) == Ev(None, "none", EmptyPath, button, Some(p))

SetStatus(s, text) == [s EXCEPT !.app.status = Status(text)]

\* main.rs 427-430
PreferredRowEdit(s, ev) ==
    IF ev.pref_edit # None
    THEN [s EXCEPT !.app.preferred_locale = ev.pref_edit[1]]
    ELSE s

\* main.rs 431-439
UpdateButton(s, ev) ==
    IF ev.click # "Update" THEN s
    ELSE IF UpdateResult(s) = "Ok"
    THEN SetStatus(UpdateConfigFileLocales(s), "Config.wtf updated")
    ELSE SetStatus(UpdateConfigFileLocales(s), "Error updating config: " \o UpdateResult(s))

\* main.rs 446-450: .chars().filter(is_ascii_alphabetic).take(4).collect()
RECURSIVE FilterAlphabetic(_)
FilterAlphabetic(l) ==
    IF l = <<>> THEN <<>>
    ELSE IF IsAsciiAlphabetic(Head(l)) THEN <<Head(l)>> \o FilterAlphabetic(Tail(l))
    ELSE FilterAlphabetic(Tail(l))

Take(l, n) == SubSeq(l, 1, IF Len(l) < n THEN Len(l) ELSE n)

\* Mutant: the filter without .take(4).
Filtered_NoTake(l) == FilterAlphabetic(l)

Filtered(l) == Take(FilterAlphabetic(l), MaxLocaleLen)

\* main.rs 445-462
FilterPreferred(s) ==
    LET orig_pref == s.app.preferred_locale
        filtered == Filtered(orig_pref)
    IN  IF filtered = <<>>
        THEN IF orig_pref = <<>>
             THEN [s EXCEPT !.app.preferred_locale = EnUS]
             ELSE SetStatus([s EXCEPT !.app.preferred_locale = EnUS],
                            "Preferred locale invalid; reset to enUS")
        ELSE IF filtered # orig_pref
        THEN SetStatus([s EXCEPT !.app.preferred_locale = filtered],
                       "Preferred locale filtered to letters only (max 4)")
        ELSE s

\* main.rs 467-496
BattleRow(s, ev) ==
    LET edited == IF ev.path_field = "battle"
                  THEN [s EXCEPT !.app.battle_net_path = ev.path_text] ELSE s
    IN  IF ev.click = "BrowseBattle" /\ ev.pick # None
        THEN IF IsFileWithExt(s.files, ev.pick[1], Exe)
             THEN SetStatus([edited EXCEPT !.app.battle_net_path = ev.pick[1]],
                            "Selected (unsaved)")
             ELSE SetStatus(edited, "Selected file is not an .exe")
        ELSE edited

\* main.rs 501-532
ConfigRow(s, ev) ==
    LET edited == IF ev.path_field = "config"
                  THEN [s EXCEPT !.app.config_wtf_path = ev.path_text] ELSE s
    IN  IF ev.click = "BrowseConfig" /\ ev.pick # None
        THEN IF IsFileWithExt(s.files, ev.pick[1], Wtf)
             THEN UpdateLocales(SetStatus([edited EXCEPT !.app.config_wtf_path = ev.pick[1]],
                                          "Selected (unsaved)"))
             ELSE SetStatus(edited, "Selected file is not a .wtf file")
        ELSE edited

\* main.rs 537-563
WowRow(s, ev) ==
    LET edited == IF ev.path_field = "wow"
                  THEN [s EXCEPT !.app.wow_executable_path = ev.path_text] ELSE s
    IN  IF ev.click = "BrowseWow" /\ ev.pick # None
        THEN IF IsFileWithExt(s.files, ev.pick[1], Exe)
             THEN SetStatus([edited EXCEPT !.app.wow_executable_path = ev.pick[1]],
                            "Selected (unsaved)")
             ELSE SetStatus(edited, "Selected file is not an .exe")
        ELSE edited

\* main.rs 345-563: everything before the bottom buttons.
Widgets(s, ev) ==
    WowRow(ConfigRow(BattleRow(FilterPreferred(
        UpdateButton(PreferredRowEdit(UpdateLocales(s), ev), ev)), ev), ev), ev)

\* Mutant: the Run button is enabled while a run is active.
RunClicked_WhileActive(s, ev) == ev.click = "Run"

\* main.rs 583-587: a disabled button is never clicked.
RunClicked(s, ev) == ev.click = "Run" /\ ~s.app.run_active

\* main.rs 589-594
RunPathsValid(s) ==
    /\ Exists(s.files, s.app.battle_net_path)
    /\ IsFileWithExt(s.files, s.app.battle_net_path, Exe)
    /\ Exists(s.files, s.app.wow_executable_path)
    /\ IsFileWithExt(s.files, s.app.wow_executable_path, Exe)

RunAccepted(s, ev) == RunClicked(s, ev) /\ RunPathsValid(s)

\* main.rs 587-651
RunButton(s, ev) ==
    IF ~RunClicked(s, ev) THEN s
    ELSE IF ~(Exists(s.files, s.app.battle_net_path)
              /\ IsFileWithExt(s.files, s.app.battle_net_path, Exe))
    THEN SetStatus(s, "Battle.net path must point to an existing .exe")
    ELSE IF ~(Exists(s.files, s.app.wow_executable_path)
              /\ IsFileWithExt(s.files, s.app.wow_executable_path, Exe))
    THEN SetStatus(s, "WoW Executable must point to an existing .exe")
    ELSE SetStatus([s EXCEPT !.app.run_active = TRUE], "Starting run sequence...")

Store == [app |-> app, files |-> files, watched |-> watched, io |-> <<>>,
          refreshes |-> <<>>]

\* What the last step did: the frame's input, the Result of the Update
\* button's call ("none" without one) with the store state it was called
\* in, the files the step opened, the pairs its re-parses cached and the
\* watcher events it drained.
OpNone == [name |-> "none", ev |-> NoEv, res |-> "none", pre |-> None, io |-> <<>>,
           refreshes |-> <<>>, events |-> <<>>]

TickUI(ev) ==
    /\ tick_pc = "ui"
    /\ LET before == PreferredRowEdit(UpdateLocales(Store), ev)
           s == Widgets(Store, ev)
           t == RunButton(s, ev)
       IN  /\ app' = t.app
           /\ files' = t.files
           /\ watched' = t.watched
           /\ op' = [name |-> "TickUI", ev |-> ev,
                     res |-> IF ev.click = "Update" THEN UpdateResult(before) ELSE "none",
                     pre |-> IF ev.click = "Update" THEN Some(before) ELSE None,
                     io |-> t.io,
                     refreshes |-> t.refreshes,
                     events |-> <<>>]
           /\ IF RunAccepted(s, ev)
              THEN /\ workers' = Append(workers,
                                        NewWorker(s.app.battle_net_path,
                                                  s.app.wow_executable_path))
                   /\ sent' = <<>>
                   /\ drained' = <<>>
                   /\ spawned' = <<>>
              ELSE UNCHANGED <<workers, sent, drained, spawned>>
    /\ tick_pc' = "drain"
    /\ UNCHANGED <<run_chan, watch_chan>>

(***************************************************************************)
(* EntitanApp::update, second part (main.rs 698-742): the two drains.  The *)
(* worker thread runs while the frame is handled, so it may send between   *)
(* the Run button and the drain of the same frame.                         *)
(***************************************************************************)
\* Mutant: every run message clears the run-active flag.
OnRunMessage_ClearsOnAny(s, msg) ==
    IF msg = Finished
    THEN SetStatus([s EXCEPT !.app.run_active = FALSE], "Run sequence completed")
    ELSE [s EXCEPT !.app.status = Some(msg), !.app.run_active = FALSE]

\* Mutant: FINISHED does not clear run_active.
OnRunMessage_KeepsActive(s, msg) ==
    IF msg = Finished
    THEN SetStatus(s, "Run sequence completed")
    ELSE [s EXCEPT !.app.status = Some(msg)]

\* main.rs 700-709: one message.
OnRunMessage(s, msg) ==
    IF msg = Finished
    THEN SetStatus([s EXCEPT !.app.run_active = FALSE], "Run sequence completed")
    ELSE [s EXCEPT !.app.status = Some(msg)]

\* main.rs 699-710: the loop handles the messages of q in order.  A message
\* other than FINISHED only overwrites the status, which the next message
\* overwrites again, so the loop leaves what its last message leaves, after
\* a FINISHED if one came earlier in q.
DrainRun(s, q) ==
    IF q = <<>> THEN s
    ELSE LET earlier == SubSeq(q, 1, Len(q) - 1)
             before == IF \E i \in 1..Len(earlier) : earlier[i] = Finished
                       THEN OnRunMessage(s, Finished)
                       ELSE s
         IN  OnRunMessage(before, q[Len(q)])

\* A watcher event is [ok, paths]: Ok(event) with event.paths, or Err(e).
WatchEvent(paths) == [ok |-> TRUE, paths |-> paths]
WatchError == [ok |-> FALSE, paths |-> <<>>]

\* Mutant: the event's paths are not compared with the configured path.
EventMatches_AnyPath(s, event) ==
    /\ s.app.config_wtf_path # EmptyPath
    /\ event.paths # <<>>

\* main.rs 723-735: some path of the event is the configured path.
EventMatches(s, event) ==
    /\ s.app.config_wtf_path # EmptyPath
    /\ \E i \in 1..Len(event.paths) : event.paths[i] = s.app.config_wtf_path

\* Mutant: a watcher error is handled like a change of the configured file.
OnWatchEvent_ErrorReloads(s, event) ==
    IF ~event.ok
    THEN SetStatus(UpdateLocales([s EXCEPT !.app.last_config_path = None]),
                   "File watcher error: <cause>")
    ELSE IF EventMatches(s, event)
    THEN SetStatus(UpdateLocales([s EXCEPT !.app.last_config_path = None]),
                   "Config.wtf changed on disk; reloaded")
    ELSE s

\* Mutant: the cache key is not cleared before update_locales.
OnWatchEvent_NotForced(s, event) ==
    IF ~event.ok THEN SetStatus(s, "File watcher error: <cause>")
    ELSE IF EventMatches(s, event)
    THEN SetStatus(UpdateLocales(s), "Config.wtf changed on disk; reloaded")
    ELSE s

\* main.rs 721-740: one event.
OnWatchEvent(s, event) ==
    IF ~event.ok THEN SetStatus(s, "File watcher error: <cause>")
    ELSE IF EventMatches(s, event)
    THEN SetStatus(UpdateLocales([s EXCEPT !.app.last_config_path = None]),
                   "Config.wtf changed on disk; reloaded")
    ELSE s

\* main.rs 713-742
RECURSIVE DrainWatcher(_, _)
DrainWatcher(s, q) ==
    IF q = <<>> THEN s ELSE DrainWatcher(OnWatchEvent(s, Head(q)), Tail(q))

\* Mutant: the drain handles the first run message and discards the rest.
TickDrain_DropsRest ==
    /\ tick_pc = "drain"
    /\ LET first == IF run_chan = <<>> THEN <<>> ELSE <<Head(run_chan)>>
           s == DrainWatcher(DrainRun(Store, first), watch_chan)
       IN  /\ app' = s.app
           /\ files' = s.files
           /\ watched' = s.watched
           /\ op' = [OpNone EXCEPT !.name = "TickDrain", !.io = s.io,
                                    !.refreshes = s.refreshes,
                                    !.events = watch_chan]
           /\ drained' = drained \o first
    /\ run_chan' = <<>>
    /\ watch_chan' = <<>>
    /\ tick_pc' = "ui"
    /\ UNCHANGED <<workers, sent, spawned>>

TickDrain ==
    /\ tick_pc = "drain"
    /\ LET s == DrainWatcher(DrainRun(Store, run_chan), watch_chan)
       IN  /\ app' = s.app
           /\ files' = s.files
           /\ watched' = s.watched
           /\ op' = [OpNone EXCEPT !.name = "TickDrain", !.io = s.io,
                                    !.refreshes = s.refreshes,
                                    !.events = watch_chan]
    /\ drained' = drained \o run_chan
    /\ run_chan' = <<>>
    /\ watch_chan' = <<>>
    /\ tick_pc' = "ui"
    /\ UNCHANGED <<workers, sent, spawned>>

(***************************************************************************)
(* The launch sequence: the frame handler and the worker thread, over a    *)
(* fixed file system.                                                      *)
(***************************************************************************)
BnetExe == Path("Battle.net", Exe)
WowExe == Path("Wow", <<"E","X","E">>)
GoneExe == Path("Gone", Exe)
DirExe == Path("Folder", Exe)
NotesTxt == Path("Notes", <<"t","x","t">>)

RunPaths == {EmptyPath, BnetExe, WowExe, GoneExe, DirExe, NotesTxt}
RunFiles ==
    [p \in RunPaths |->
        IF p \in {BnetExe, WowExe, NotesTxt} THEN File(<<>>)
        ELSE IF p = DirExe THEN Dir
        ELSE NoFile]

BattleInputs == {BnetExe, GoneExe, DirExe}
WowInputs == {WowExe, NotesTxt}

\* EntitanApp::default (main.rs 104-153) for the settings loaded at startup.
DefaultApp(battle, config, wow, preferred) ==
    [battle_net_path |-> battle,
     config_wtf_path |-> config,
     wow_executable_path |-> wow,
     status |-> None,
     preferred_locale |-> IF preferred = <<>> THEN EnUS ELSE preferred,
     audio_locale |-> None,
     text_locale |-> None,
     last_config_path |-> None,
     watcher |-> TRUE,
     run_active |-> FALSE]

\* main.rs 114-119: the watcher's first registration.
DefaultWatched(fs, config) ==
    IF config # EmptyPath /\ Exists(fs, config) THEN Watch({}, fs, config) ELSE {}

InitWith(fs, battle, config, wow, preferred) ==
    /\ app = DefaultApp(battle, config, wow, preferred)
    /\ files = fs
    /\ watched = DefaultWatched(fs, config)
    /\ run_chan = <<>>
    /\ watch_chan = <<>>
    /\ workers = <<>>
    /\ tick_pc = "ui"
    /\ sent = <<>>
    /\ drained = <<>>
    /\ spawned = <<>>
    /\ op = OpNone

InitRun ==
    \E battle \in BattleInputs, wow \in WowInputs :
        InitWith(RunFiles, battle, EmptyPath, wow, EnUS)

RunEvents ==
    {NoEv, Click("Run")}
        \cup { EditPath("battle", p) : p \in BattleInputs }
        \cup { EditPath("wow", p) : p \in WowInputs }

FrameRun == \E ev \in RunEvents : TickUI(ev)

NextRun == FrameRun \/ TickDrain \/ Worker

SpecRun == InitRun /\ [][NextRun]_vars

\* The same machine with both paths valid and never edited, under the
\* scheduling the code provides: the worker is an OS thread, and while a run
\* is active every frame asks for the next one (main.rs 745-747).
InitRunFair == InitWith(RunFiles, BnetExe, EmptyPath, WowExe, EnUS)

FrameRunFair == \E ev \in {NoEv, Click("Run")} : TickUI(ev)

NextRunFair == FrameRunFair \/ TickDrain \/ Worker

SpecRunFair ==
    /\ InitRunFair
    /\ [][NextRunFair]_vars
    /\ WF_vars(Worker)
    /\ WF_vars(FrameRunFair)
    /\ WF_vars(TickDrain)

\* The same machine when only the worker thread is scheduled fairly: the
\* frames, and with them the drains, may stop at any time.
SpecWorkerFair ==
    /\ InitRunFair
    /\ [][NextRunFair]_vars
    /\ WF_vars(Worker)

(***************************************************************************)
(* Claims about the launch sequence.                                       *)
(***************************************************************************)
Last(q) == q[Len(q)]
AllOk(sp) == \A i \in 1..Len(sp) : sp[i].ok
\* The worker started by the last accepted Run has returned.
RunReturned == workers = <<>> /\ sent # <<>>

TenDown == [i \in 1..10 |-> Msg("Waiting to launch WoW: {}s", 11 - i)]
SixtyDown == [i \in 1..60 |-> Msg("Waiting before re-launching Battle.net: {}s", 61 - i)]
SuccessfulRun ==
    <<LaunchedA>> \o TenDown \o <<LaunchedB>> \o SixtyDown \o <<LaunchedA2, Finished>>

\* C1: a run whose three spawns all succeeded has emitted exactly 74
\* messages: launch-A success, the countdown 10..1, launch-B success, the
\* countdown 60..1, the second launch-A success, FINISHED.
C1_SuccessfulRunEmits74 ==
    (RunReturned /\ Len(spawned) = 3 /\ AllOk(spawned))
        => (sent = SuccessfulRun /\ Len(sent) = 74)

C1_Witness ==
    RunReturned /\ Len(spawned) = 3 /\ AllOk(spawned) /\ Last(sent) = Finished

\* C2: once the first spawn of A has failed, the worker emits the failure
\* message and then FINISHED and nothing else: no countdown message, and no
\* further spawn (neither B nor the relaunch of A) is attempted.
C2_FirstLaunchFailure ==
    (spawned # <<>> /\ ~spawned[1].ok)
        => /\ Len(spawned) = 1
           /\ sent \in {<<FailedA>>, <<FailedA, Finished>>}
           /\ workers = <<>> => sent = <<FailedA, Finished>>

C2_Witness ==
    spawned # <<>> /\ ~spawned[1].ok /\ workers = <<>> /\ Len(sent) = 2

\* C3: at most one worker exists at any time and the run-active flag is set
\* while it does; and a frame handled while the flag is set, whatever its
\* input (a click on Run included), spawns no worker, launches nothing,
\* enqueues nothing and leaves the flag alone.
C3_OneRunAtATime ==
    /\ [](Len(workers) <= 1 /\ (workers # <<>> => app.run_active))
    /\ [][(tick_pc = "ui" /\ tick_pc' = "drain" /\ app.run_active)
            => /\ workers' = workers
               /\ spawned' = spawned
               /\ run_chan' = run_chan
               /\ sent' = sent
               /\ app'.run_active]_vars

C3_Witness ==
    /\ op.name = "TickUI" /\ op.ev.click = "Run"
    /\ Len(workers) = 1 /\ workers[1].pc = "countBA"
    /\ app.run_active

\* C4: FINISHED is emitted at most once, only as the last message, and a
\* worker that has returned has emitted it; when the second launch of A
\* fails, the run still counts 74 messages and ends with the second-launch
\* failure message, distinct from the other messages, followed by FINISHED.
C4_FinishedIsLast ==
    /\ \A i \in 1..Len(sent) : sent[i] = Finished => (i = Len(sent) /\ workers = <<>>)
    /\ RunReturned => Last(sent) = Finished
    /\ (RunReturned /\ Len(spawned) = 3 /\ ~spawned[3].ok)
         => /\ Len(sent) = 74
            /\ sent[73] = FailedA2
            /\ sent[74] = Finished
            /\ FailedA2 \notin {FailedA, FailedB, LaunchedA2}
            /\ SubSeq(sent, 1, 72) = SubSeq(SuccessfulRun, 1, 72)

C4_Witness ==
    RunReturned /\ Len(spawned) = 3 /\ ~spawned[3].ok /\ Last(sent) = Finished

\* The paths of RunFiles that are regular files with the exe extension.
ExecutableFiles == {BnetExe, WowExe}

\* C5: a frame whose Battle.net path or WoW path is not an existing regular
\* file with the exe extension starts nothing: the run-active flag stays
\* false, no worker is spawned, nothing is launched, no message is enqueued.
C5_InvalidPathsStartNothing ==
    [][(tick_pc = "ui" /\ tick_pc' = "drain" /\ ~app.run_active
          /\ (app'.battle_net_path \notin ExecutableFiles
                \/ app'.wow_executable_path \notin ExecutableFiles))
         => /\ ~app'.run_active
            /\ workers' = workers
            /\ spawned' = spawned
            /\ run_chan' = run_chan
            /\ sent' = sent]_vars

C5_Witness ==
    /\ op.name = "TickUI" /\ op.ev.click = "Run"
    /\ app.battle_net_path = BnetExe
    /\ app.wow_executable_path = NotesTxt
    /\ app.status = Status("WoW Executable must point to an existing .exe")
    /\ ~app.run_active /\ workers = <<>>

\* C6: under fair scheduling of the worker and of the frames, a run-active
\* flag that is set is eventually cleared again.
C6_RunEventuallyEnds == app.run_active ~> ~app.run_active

C6_Witness ==
    /\ ~app.run_active
    /\ drained # <<>> /\ Last(drained) = Finished
    /\ Len(spawned) = 2 /\ ~spawned[2].ok


(***************************************************************************)
(* The locale store driven by the frame handler: the Config.wtf path, the  *)
(* Preferred Locale field and the Update button, over the config files a   *)
(* user may have.                                                          *)
(***************************************************************************)
ConfigWtf == Path("Config", Wtf)
GoneWtf == Path("Gone", Wtf)
DirWtf == Path("Folder", Wtf)
CfgPaths == {EmptyPath, ConfigWtf, GoneWtf, DirWtf}

DeDE == <<"d","e","D","E">>
\* A preferred locale as a hand-edited settings file gives it: the Update
\* button of the first frame uses it as it is, and the end of that frame
\* filters it to ab (main.rs 445-462).
QuoteLocale == <<"a","\"","b">>

\* The lines of the config files: the two keys, a key line with leading
\* whitespace and no quotes, a line of another key, and the filler line.
AudioLine == FormatAudio(EnUS)
TextLine == FormatText(DeDE)
BareTextLine == <<"\t">> \o SetTextLocale \o <<" ">> \o DeDE
OtherLine == <<"S","E","T"," ","g","x"," ","\"","1","\"">>
PadLine == <<PAD>>
CfgLines == {AudioLine, TextLine, BareTextLine, OtherLine, PadLine}

\* A file of the lines ls: every line ended by LF ("lf") or by CR LF
\* ("crlf"), or LF between the lines and none after the last ("open").
RECURSIVE Render(_, _)
Render(ls, term) ==
    IF ls = <<>> THEN <<>>
    ELSE IF term = "open" /\ Len(ls) = 1 THEN ls[1]
    ELSE ls[1] \o (IF term = "crlf" THEN <<"\r", "\n">> ELSE <<"\n">>)
               \o Render(Tail(ls), term)

CfgContents ==
    { Render(ls, term) :
        ls \in UNION { [1..n -> CfgLines] : n \in 0..MaxLines },
        term \in {"lf", "crlf", "open"} }

CfgFiles(content) ==
    [p \in CfgPaths |->
        IF p = ConfigWtf THEN File(content)
        ELSE IF p = DirWtf THEN Dir
        ELSE NoFile]

InitCfg ==
    \E content \in CfgContents :
        InitWith(CfgFiles(content), EmptyPath, ConfigWtf, EmptyPath, QuoteLocale)

CfgEvents ==
    {NoEv, Click("Update"),
     Browse("BrowseConfig", ConfigWtf)}
        \cup { EditPath("config", p) : p \in CfgPaths \ {ConfigWtf} }

FrameCfg == \E ev \in CfgEvents : TickUI(ev)

NextCfg == FrameCfg \/ TickDrain

SpecCfg == InitCfg /\ [][NextCfg]_vars

(***************************************************************************)
(* Claims about the locale store.                                          *)
(***************************************************************************)
\* The last step was a frame with a click on Update.
Updated == op.name = "TickUI" /\ op.ev.click = "Update"
\* The store state update_config_file_locales was called in, its path, its
\* preferred locale, and the content of the file then and now.
Pre == op.pre[1]
PreCfg == Pre.app.config_wtf_path
PreLocale == Pre.app.preferred_locale
PreContent == Pre.files[PreCfg].content
NowContent == files[PreCfg].content
UpdatedOk == Updated /\ op.res = "Ok"

\* C7: after a successful Update of a file below the guard before and after
\* the write, the cached audioLocale and textLocale both equal the locale
\* that Update was given.
C7_UpdateRoundTrip ==
    (UpdatedOk /\ ByteLen(PreContent) < SizeGuard /\ ByteLen(NowContent) < SizeGuard)
        => /\ app.audio_locale = Some(PreLocale)
           /\ app.text_locale = Some(PreLocale)

IsAudioKey(line) == StartsWith(Trim(line), SetAudioLocale)
IsTextKey(line) == ~IsAudioKey(line) /\ StartsWith(Trim(line), SetTextLocale)

\* The lines a successful Update may add after the original ones: one for
\* each key that no original line holds, audio first.
Appended(old, l) ==
    (IF \E i \in 1..Len(old) : IsAudioKey(old[i]) THEN <<>> ELSE <<FormatAudio(l)>>)
        \o (IF \E i \in 1..Len(old) : IsTextKey(old[i]) THEN <<>> ELSE <<FormatText(l)>>)

\* C8: after a successful Update the file holds the original lines in their
\* original order, each line that matches neither key unchanged and each
\* matching line replaced at its position by the key's line for the new
\* locale, followed only by a line for each key the original did not hold.
C8_UpdateFrame ==
    UpdatedOk =>
        LET old == Lines(PreContent)
            new == Lines(NowContent)
        IN  /\ Len(new) >= Len(old)
            /\ \A i \in 1..Len(old) :
                 new[i] = IF IsAudioKey(old[i]) THEN FormatAudio(PreLocale)
                          ELSE IF IsTextKey(old[i]) THEN FormatText(PreLocale)
                          ELSE old[i]
            /\ SubSeq(new, Len(old) + 1, Len(new)) = Appended(old, PreLocale)

C8_Witness ==
    /\ UpdatedOk
    /\ Lines(PreContent) = <<OtherLine, TextLine>>
    /\ PreLocale = Filtered(QuoteLocale)
    /\ Lines(NowContent) = <<OtherLine, FormatText(PreLocale), FormatAudio(PreLocale)>>

\* C9: Update fails with "not set" for the empty path, with "does not exist
\* or is not a file" for a path that is missing or not a regular file, with
\* "too large" for a file of 8192 bytes or more; and a failed Update leaves
\* the files, both cached locale values and the cache key as they were.
C9_UpdateErrors ==
    Updated =>
        /\ PreCfg = EmptyPath => op.res = ErrNotSet
        /\ (PreCfg # EmptyPath /\ Pre.files[PreCfg].kind # "file") => op.res = ErrNotFile
        /\ (PreCfg # EmptyPath /\ Pre.files[PreCfg].kind = "file"
              /\ ByteLen(PreContent) >= SizeGuard) => op.res = ErrTooLarge
        /\ op.res \in {ErrNotSet, ErrNotFile, ErrTooLarge}
             => /\ files = Pre.files
                /\ app.audio_locale = Pre.app.audio_locale
                /\ app.text_locale = Pre.app.text_locale
                /\ app.last_config_path = Pre.app.last_config_path

C9_Witness ==
    /\ Updated
    /\ PreCfg = DirWtf
    /\ op.res = ErrNotFile
    /\ files = Pre.files

\* C10: every file a step opened, for reading or for writing, was below
\* 8192 bytes when it was opened; an Update of a file of 8191 bytes or less
\* succeeds and one of 8192 bytes or more is refused as too large; and the
\* cached values are the too-large sentinel exactly when the refreshed file
\* holds 8192 bytes or more.
C10_GuardedAccess ==
    /\ \A i \in 1..Len(op.io) : op.io[i].size < SizeGuard
    /\ (Updated /\ PreCfg # EmptyPath /\ Pre.files[PreCfg].kind = "file")
         => /\ ByteLen(PreContent) <= SizeGuard - 1 => op.res = "Ok"
            /\ ByteLen(PreContent) >= SizeGuard
                 => (op.res = ErrTooLarge /\ \A i \in 1..Len(op.io) : op.io[i].kind # "write")
    /\ \A p \in CfgPaths :
         (app.last_config_path = Some(p) /\ files[p].kind = "file")
            => /\ ByteLen(files[p].content) >= SizeGuard
                    => (app.audio_locale = Some(FileTooLarge)
                          /\ app.text_locale = Some(FileTooLarge))
               /\ ByteLen(files[p].content) <= SizeGuard - 1
                    => (app.audio_locale # Some(FileTooLarge)
                          /\ app.text_locale # Some(FileTooLarge))

C10_Witness ==
    /\ UpdatedOk
    /\ ByteLen(PreContent) = SizeGuard - 1
    /\ \E i \in 1..Len(op.io) : op.io[i] = [kind |-> "write", path |-> PreCfg, size |-> SizeGuard - 1]
    /\ ByteLen(NowContent) >= SizeGuard
    /\ app.audio_locale = Some(FileTooLarge)

(***************************************************************************)
(* The change watcher: the frame handler with the Config.wtf field and its *)
(* Browse button, another process that rewrites Config.wtf, and the        *)
(* watcher thread that sends what notify reports (main.rs 110-113).        *)
(***************************************************************************)
\* Most events in flight on the watcher channel.
MaxEvents == 2

WatchPaths == {EmptyPath, ConfigWtf, DirWtf}

EnUSConfig == Render(<<FormatAudio(EnUS), FormatText(EnUS)>>, "lf")
DeDEConfig == Render(<<FormatAudio(DeDE), FormatText(DeDE)>>, "lf")
\* The contents Config.wtf takes.
WatchContents == {EnUSConfig, DeDEConfig}

WatchFiles ==
    [p \in WatchPaths |->
        IF p = ConfigWtf THEN File(DeDEConfig)
        ELSE IF p = DirWtf THEN Dir
        ELSE NoFile]

InitWatch ==
    \E config \in {EmptyPath, ConfigWtf} :
        InitWith(WatchFiles, EmptyPath, config, EmptyPath, EnUS)

WatchFrameEvents ==
    {NoEv, Browse("BrowseConfig", ConfigWtf)}
        \cup { EditPath("config", p) : p \in WatchPaths }

FrameWatch == \E ev \in WatchFrameEvents : TickUI(ev)

\* Another process rewrites Config.wtf.
ExternalWrite ==
    /\ \E content \in WatchContents :
         /\ content # files[ConfigWtf].content
         /\ files' = [files EXCEPT ![ConfigWtf] = File(content)]
    /\ op' = [OpNone EXCEPT !.name = "ExternalWrite"]
    /\ UNCHANGED <<app, watched, run_chan, watch_chan, workers, tick_pc,
                   sent, drained, spawned>>

\* main.rs 112-113: the watcher thread sends an event about a watched path,
\* or an error, whenever notify reports one.
Notify ==
    /\ Len(watch_chan) < MaxEvents
    /\ \E event \in { WatchEvent(<<p>>) : p \in watched } \cup {WatchError} :
         watch_chan' = Append(watch_chan, event)
    /\ op' = [OpNone EXCEPT !.name = "Notify"]
    /\ UNCHANGED <<app, files, watched, run_chan, workers, tick_pc,
                   sent, drained, spawned>>

NextWatch == FrameWatch \/ TickDrain \/ ExternalWrite \/ Notify

SpecWatch == InitWatch /\ [][NextWatch]_vars

(***************************************************************************)
(* Claims about the change watcher.                                        *)
(***************************************************************************)
\* C11: at most one path is subscribed to the watcher at any time, and once
\* the configured config path has been refreshed (it is the cache key) and
\* exists, it is the one path subscribed.
C11_OneWatchedPath ==
    /\ Cardinality(watched) <= 1
    /\ (app.last_config_path = Some(app.config_wtf_path)
          /\ files[app.config_wtf_path].kind # "none")
         => watched = {app.config_wtf_path}

\* C12: every path subscribed to the watcher, and every path passed to a
\* spawn, is an existing regular file with the required extension (wtf for
\* the watcher, exe for a spawn).
C12_ValidatedTargets ==
    /\ \A p \in watched : IsFile(files, p) /\ EqIgnoreAsciiCase(p.ext, Wtf)
    /\ \A i \in 1..Len(spawned) :
         IsFile(files, spawned[i].path) /\ EqIgnoreAsciiCase(spawned[i].path.ext, Exe)

\* The value update_locales is to cache for a key: the sentinel for a file
\* of 8192 bytes or more, else the quoted text of the last line of the file
\* that starts with the key and holds two quotes, None without such a line.
KeyLines(ls, key) ==
    { i \in 1..Len(ls) : StartsWith(Trim(ls[i]), key) /\ ExtractQuoted(Trim(ls[i])) # None }

Expected(fs, p, key) ==
    IF p = EmptyPath \/ fs[p].kind = "none" THEN None
    ELSE IF ByteLen(fs[p].content) >= SizeGuard THEN Some(FileTooLarge)
    ELSE IF fs[p].kind # "file" THEN None
    ELSE LET ls == Lines(fs[p].content)
             is == KeyLines(ls, key)
         IN  IF is = {} THEN None
             ELSE ExtractQuoted(Trim(ls[CHOOSE i \in is : \A j \in is : j <= i]))

\* Event i of the watcher channel is about the configured config path.
AboutConfig(i) ==
    /\ watch_chan[i].ok
    /\ app.config_wtf_path # EmptyPath
    /\ \E k \in 1..Len(watch_chan[i].paths) : watch_chan[i].paths[k] = app.config_wtf_path

DrainStep == tick_pc = "drain" /\ tick_pc' = "ui"

Reloaded == Status("Config.wtf changed on disk; reloaded")

\* C13 as stated: a tick that drains a notification about the configured
\* config path ends with the cached values that the file's current content
\* gives and with the status of the external reload.
C13_ForcedReloadStated ==
    [][(DrainStep /\ \E i \in 1..Len(watch_chan) : AboutConfig(i))
         => /\ app'.audio_locale = Expected(files', app'.config_wtf_path, SetAudioLocale)
            /\ app'.text_locale = Expected(files', app'.config_wtf_path, SetTextLocale)
            /\ app'.status = Reloaded]_vars

\* C13, amended: a tick that drains a notification about the configured
\* config path ends with the cached values that the file's current content
\* gives, whatever the cache key was; its status is that of the external
\* reload unless a watcher error was drained after that notification, and
\* then it is the watcher error.
C13_ForcedReload ==
    [][(DrainStep /\ \E i \in 1..Len(watch_chan) : AboutConfig(i))
         => /\ app'.audio_locale = Expected(files', app'.config_wtf_path, SetAudioLocale)
            /\ app'.text_locale = Expected(files', app'.config_wtf_path, SetTextLocale)
            /\ LET last == CHOOSE i \in 1..Len(watch_chan) :
                               /\ AboutConfig(i) \/ ~watch_chan[i].ok
                               /\ \A j \in (i + 1)..Len(watch_chan) :
                                    ~AboutConfig(j) /\ watch_chan[j].ok
               IN  app'.status = IF watch_chan[last].ok THEN Reloaded
                                 ELSE Status("File watcher error: <cause>")]_vars

C13_Witness ==
    /\ op.name = "TickDrain"
    /\ op.events = <<WatchEvent(<<ConfigWtf>>)>>
    /\ app.config_wtf_path = ConfigWtf
    /\ files[ConfigWtf].content = EnUSConfig
    /\ app.audio_locale = Some(EnUS)
    /\ app.text_locale = Some(EnUS)
    /\ app.status = Reloaded

\* C14: a tick that drains only notifications about other paths than the
\* configured config path (any notification, when that path is empty)
\* leaves the cached values, the cache key, the subscriptions and the
\* status as they were.
C14_OtherPathsIgnored ==
    [][(DrainStep /\ run_chan = <<>> /\ watch_chan # <<>>
          /\ \A i \in 1..Len(watch_chan) : watch_chan[i].ok /\ ~AboutConfig(i))
         => /\ app'.audio_locale = app.audio_locale
            /\ app'.text_locale = app.text_locale
            /\ app'.last_config_path = app.last_config_path
            /\ watched' = watched
            /\ app'.status = app.status]_vars

C14_Witness ==
    /\ op.name = "TickDrain"
    /\ op.events = <<WatchEvent(<<ConfigWtf>>)>>
    /\ app.config_wtf_path = DirWtf
    /\ app.last_config_path = Some(ConfigWtf)
    /\ app.audio_locale = Some(DeDE)
    /\ watched = {ConfigWtf}
    /\ app.status = None

(***************************************************************************)
(* The Preferred Locale field: the frame handler over every text of up to  *)
(* MaxPrefLen characters, typed into the field or loaded from the settings *)
(* file, with no config file configured.                                   *)
(***************************************************************************)
\* Longest text of the Preferred Locale field.
MaxPrefLen == 5

\* A lower-case letter, an upper-case letter and a character that is none.
PrefAlphabet == {"a", "Z", "\""}
PrefInputs == UNION { [1..n -> PrefAlphabet] : n \in 0..MaxPrefLen }

\* Texts of the settings file: none, a valid one, one with a quote, a long one.
PrefSettings == {<<>>, <<"a", "Z">>, QuoteLocale, <<"a", "Z", "a", "Z", "a">>}

InitPref ==
    \E preferred \in PrefSettings :
        InitWith(CfgFiles(<<>>), EmptyPath, EmptyPath, EmptyPath, preferred)

FramePref == \E ev \in {NoEv} \cup { EditPreferred(l) : l \in PrefInputs } : TickUI(ev)

NextPref == FramePref \/ TickDrain

SpecPref == InitPref /\ [][NextPref]_vars

(***************************************************************************)
(* Further claims about the launch sequence, under SpecRun.                *)
(***************************************************************************)
FailedBRun == <<LaunchedA>> \o TenDown \o <<FailedB, Finished>>
LaunchMessages == {LaunchedA, FailedA, LaunchedB, FailedB, LaunchedA2, FailedA2}
Occurrences(q, m) == Cardinality({ i \in 1..Len(q) : q[i] = m })

\* C17: once the spawn of A has succeeded and the spawn of B has failed, the
\* worker has emitted launch-A success, the countdown 10..1 and the B
\* failure message, then emits FINISHED and returns, 13 messages in all: no
\* message of the 60-second countdown is emitted and no third spawn is
\* attempted.
C17_SecondLaunchFailure ==
    (Len(spawned) >= 2 /\ spawned[1].ok /\ ~spawned[2].ok)
        => /\ Len(spawned) = 2
           /\ sent \in {SubSeq(FailedBRun, 1, 12), FailedBRun}
           /\ \A i \in 1..Len(sent) :
                sent[i] \notin {LaunchedB, LaunchedA2, FailedA2}
                                  \cup { SixtyDown[k] : k \in 1..60 }
           /\ workers = <<>> => (sent = FailedBRun /\ Len(sent) = 13)

C17_Witness ==
    /\ Len(spawned) = 2 /\ spawned[1].ok /\ ~spawned[2].ok
    /\ workers = <<>>
    /\ Len(sent) = 13 /\ sent[12] = FailedB /\ sent[13] = Finished

\* C18: a run attempts at most three launches, A, then B, then A again, one
\* message per attempt and no launch message twice; only the last attempt
\* made can have failed; B is attempted only after launch-A success and the
\* whole countdown 10..1; the relaunch of A only after launch-B success and
\* the whole countdown 60..1.
C18_FixedOrder ==
    /\ Len(spawned) <= 3
    /\ \A i \in 1..Len(spawned) - 1 : spawned[i].ok
    /\ \A m \in LaunchMessages : Occurrences(sent, m) <= 1
    /\ Cardinality({ i \in 1..Len(sent) : sent[i] \in LaunchMessages }) = Len(spawned)
    /\ workers # <<>>
         => \A i \in 1..Len(spawned) :
              spawned[i].path = IF i = 2 THEN workers[1].wow_path
                                ELSE workers[1].battle_path
    /\ Len(spawned) >= 1 => (Len(sent) >= 1 /\ sent[1] \in {LaunchedA, FailedA})
    /\ Len(spawned) >= 2
         => /\ Len(sent) >= 12
            /\ SubSeq(sent, 1, 11) = <<LaunchedA>> \o TenDown
            /\ sent[12] \in {LaunchedB, FailedB}
    /\ Len(spawned) = 3
         => /\ Len(sent) >= 73
            /\ SubSeq(sent, 1, 72) = SubSeq(SuccessfulRun, 1, 72)
            /\ sent[73] \in {LaunchedA2, FailedA2}
            /\ spawned[3].path = spawned[1].path

C18_Witness ==
    /\ Len(spawned) = 3 /\ spawned[3].ok
    /\ Len(workers) = 1 /\ workers[1].pc = "finish"
    /\ Len(sent) = 73 /\ sent[73] = LaunchedA2

\* C19: a worker that exists can always take its next step, however many
\* messages are queued; with the worker alone scheduled fairly, a worker that
\* exists eventually returns; and when it has returned with none of its
\* messages drained, the channel holds every message it sent, FINISHED last.
C19_SendsNeverBlock ==
    /\ [](workers # <<>> => ENABLED Worker)
    /\ (workers # <<>>) ~> (workers = <<>>)
    /\ []((RunReturned /\ drained = <<>>)
            => (run_chan = sent /\ Last(run_chan) = Finished))

C19_Witness ==
    /\ RunReturned
    /\ drained = <<>>
    /\ Len(run_chan) = 74
    /\ run_chan = SuccessfulRun
    /\ app.run_active

\* C20: the messages the drains have consumed, followed by the messages
\* still queued, are the messages the worker has sent, in the order sent;
\* and a drain consumes the whole queue in that order: it leaves the status
\* of the last message queued and clears the run-active flag exactly when
\* FINISHED was queued.
C20_OrderedDelivery ==
    /\ [](drained \o run_chan = sent)
    /\ [][(tick_pc = "drain" /\ tick_pc' = "ui" /\ run_chan # <<>>)
            => /\ drained' = drained \o run_chan
               /\ run_chan' = <<>>
               /\ app'.status = IF Last(run_chan) = Finished
                                THEN Status("Run sequence completed")
                                ELSE Some(Last(run_chan))
               /\ app'.run_active
                    = (app.run_active
                         /\ \A i \in 1..Len(run_chan) : run_chan[i] # Finished)]_vars

C20_Witness ==
    /\ Len(drained) >= 3
    /\ Len(run_chan) >= 3
    /\ workers # <<>>
    /\ drained \o run_chan = SubSeq(SuccessfulRun, 1, Len(sent))

(***************************************************************************)
(* Claims about the preferred locale.                                      *)
(***************************************************************************)
\* The PreferredLocale constraint: one to four ASCII letters.
ValidLocale(l) ==
    /\ Len(l) >= 1
    /\ Len(l) <= 4
    /\ \A i \in 1..Len(l) : l[i] \in Range(UpperCase) \cup Range(LowerCase)

\* What the filter of the frame handler makes of the text l.
Normalized(l) == FilterPreferred([Store EXCEPT !.app.preferred_locale = l]).app.preferred_locale

\* C15: once a tick has run, the stored preferred locale is one to four
\* ASCII letters and normalizing it again leaves it as it is; the locale
\* stored by a tick is the normalization of the text typed in that tick,
\* which is the text itself when the text satisfies the constraint, and the
\* normalization of every text is a fixed point of the normalization.
C15_NormalizedLocale ==
    /\ op.name # "none"
         => /\ ValidLocale(app.preferred_locale)
            /\ Normalized(app.preferred_locale) = app.preferred_locale
    /\ (op.name = "TickUI" /\ op.ev.pref_edit # None)
         => LET typed == op.ev.pref_edit[1] IN
            /\ app.preferred_locale = Normalized(typed)
            /\ Normalized(Normalized(typed)) = Normalized(typed)
            /\ ValidLocale(typed) => app.preferred_locale = typed
            /\ (\A i \in 1..Len(typed) : ~IsAsciiAlphabetic(typed[i]))
                 => app.preferred_locale = EnUS

C15_Witness ==
    /\ op.name = "TickUI"
    /\ op.ev.pref_edit = Some(<<"a", "\"", "Z", "a", "Z">>)
    /\ app.preferred_locale = <<"a", "Z", "a", "Z">>
    /\ app.status = Status("Preferred locale filtered to letters only (max 4)")

HasFinished(q) == \E i \in 1..Len(q) : q[i] = Finished

\* C21: a drain that takes FINISHED from the channel clears the run-active
\* flag, and no worker is left; a drain of messages without FINISHED changes
\* nothing of the application but the status, which becomes the last message;
\* and a frame with a click on Run and two valid paths, handled while the
\* flag is clear, starts a run.
C21_FinishedReopensStart ==
    [][/\ (tick_pc = "drain" /\ tick_pc' = "ui" /\ HasFinished(run_chan))
            => /\ ~app'.run_active
               /\ app'.status = Status("Run sequence completed")
               /\ workers' = <<>>
       /\ (tick_pc = "drain" /\ tick_pc' = "ui" /\ run_chan # <<>>
             /\ ~HasFinished(run_chan))
            => app' = [app EXCEPT !.status = Some(Last(run_chan))]
       /\ (tick_pc = "ui" /\ tick_pc' = "drain" /\ ~app.run_active
             /\ op'.ev.click = "Run"
             /\ app.battle_net_path \in ExecutableFiles
             /\ app.wow_executable_path \in ExecutableFiles)
            => /\ app'.run_active
               /\ workers' = <<NewWorker(app.battle_net_path,
                                         app.wow_executable_path)>>]_vars

C21_Witness ==
    /\ op.name = "TickDrain"
    /\ ~app.run_active
    /\ app.status = Status("Run sequence completed")
    /\ Len(drained) = 74 /\ Last(drained) = Finished
    /\ run_chan = <<>> /\ workers = <<>>

\* C22: a worker is created with the two paths the application holds in
\* the frame that accepts the Run click and keeps them as long as it exists,
\* whatever the frames edit meanwhile; every launch it attempts is of its
\* own copy, A's path first, B's path second, and a third launch is of the
\* same path as the first.
C22_CapturedPaths ==
    /\ [](/\ workers # <<>>
            => \A i \in 1..Len(spawned) :
                 spawned[i].path = IF i = 2 THEN workers[1].wow_path
                                   ELSE workers[1].battle_path
          /\ Len(spawned) = 3 => spawned[3].path = spawned[1].path)
    /\ [][/\ (workers = <<>> /\ workers' # <<>>)
               => workers' = <<NewWorker(app'.battle_net_path,
                                         app'.wow_executable_path)>>
          /\ (workers # <<>> /\ workers' # <<>>)
               => /\ workers'[1].battle_path = workers[1].battle_path
                  /\ workers'[1].wow_path = workers[1].wow_path
          /\ (tick_pc = "ui" /\ tick_pc' = "drain" /\ workers # <<>>)
               => spawned' = spawned]_vars

C22_Witness ==
    /\ Len(spawned) = 3
    /\ spawned[1].path = BnetExe
    /\ spawned[2].path = WowExe
    /\ spawned[3].path = BnetExe
    /\ app.battle_net_path = GoneExe
    /\ app.wow_executable_path = NotesTxt
    /\ op.name = "TickUI" /\ op.ev.path_field = "wow"
    /\ workers # <<>>

(***************************************************************************)
(* Claims about the cache of the locale store.                             *)
(***************************************************************************)
FrameStep == tick_pc = "ui" /\ tick_pc' = "drain"

\* C23: a frame that starts with the configured path equal to the last
\* parsed path and leaves the path as it is parses nothing and opens no
\* file: the cached locale values, the cache key and the watched paths stay
\* as they were, whatever the file holds on disk by then.
C23_RefreshSkipped ==
    [][(/\ FrameStep
        /\ app.last_config_path = Some(app.config_wtf_path)
        /\ app'.config_wtf_path = app.config_wtf_path
        /\ op'.ev.click # "Update")
         => /\ app'.audio_locale = app.audio_locale
            /\ app'.text_locale = app.text_locale
            /\ app'.last_config_path = app.last_config_path
            /\ watched' = watched
            /\ op'.refreshes = <<>>
            /\ op'.io = <<>>]_vars

C23_Witness ==
    /\ op.name = "TickUI" /\ op.ev = NoEv
    /\ op.refreshes = <<>>
    /\ app.config_wtf_path = ConfigWtf
    /\ app.last_config_path = Some(ConfigWtf)
    /\ files[ConfigWtf] = File(EnUSConfig)
    /\ app.audio_locale = Some(DeDE)
    /\ app.text_locale = Some(DeDE)

(***************************************************************************)
(* The refresh alone: the Config.wtf field moved between a file of every   *)
(* content of up to MaxLines lines, a second file that holds both keys, a  *)
(* directory, a missing file and the empty path.                           *)
(***************************************************************************)
OtherWtf == Path("Other", Wtf)
RefreshPaths == {EmptyPath, ConfigWtf, OtherWtf, GoneWtf, DirWtf}

\* Each key with two values, a line of another key, and the filler line.
RefreshLines ==
    {FormatAudio(EnUS), FormatAudio(DeDE), FormatText(EnUS), FormatText(DeDE),
     OtherLine, PadLine}

RefreshContents ==
    { Render(ls, "lf") : ls \in UNION { [1..n -> RefreshLines] : n \in 0..MaxLines } }

RefreshFiles(content) ==
    [p \in RefreshPaths |->
        IF p = ConfigWtf THEN File(content)
        ELSE IF p = OtherWtf THEN File(DeDEConfig)
        ELSE IF p = DirWtf THEN Dir
        ELSE NoFile]

InitRefresh ==
    \E content \in RefreshContents :
        InitWith(RefreshFiles(content), EmptyPath, OtherWtf, EmptyPath, EnUS)

FrameRefresh ==
    \E ev \in {NoEv} \cup { EditPath("config", p) : p \in RefreshPaths } : TickUI(ev)

NextRefresh == FrameRefresh \/ TickDrain

SpecRefresh == InitRefresh /\ [][NextRefresh]_vars

(***************************************************************************)
(* Claims about the refresh.                                               *)
(***************************************************************************)
\* The lines of ls that start with the key, trimmed.
StartsWithKey(ls, key) == { i \in 1..Len(ls) : StartsWith(Trim(ls[i]), key) }

\* C24: every re-parse caches a pair that the path alone determines: None
\* and None for the empty path and for a path that does not exist; the
\* sentinel twice for a file of 8192 bytes or more, which is not opened;
\* else None for a key that no line of the file starts with; and the cache
\* holds the pair of the frame's last re-parse when the frame ends.
C24_NothingSurvives ==
    (op.name = "TickUI" /\ op.refreshes # <<>>)
      => /\ \A i \in 1..Len(op.refreshes) :
              LET r == op.refreshes[i]
                  f == files[r.path]
              IN  /\ (r.path = EmptyPath \/ f.kind = "none")
                       => (r.audio = None /\ r.text = None)
                  /\ (f.kind = "file" /\ ByteLen(f.content) >= SizeGuard)
                       => /\ r.audio = Some(FileTooLarge)
                          /\ r.text = Some(FileTooLarge)
                          /\ \A k \in 1..Len(op.io) : op.io[k].path # r.path
                  /\ (f.kind = "file" /\ ByteLen(f.content) < SizeGuard)
                       => /\ StartsWithKey(Lines(f.content), SetAudioLocale) = {}
                               => r.audio = None
                          /\ StartsWithKey(Lines(f.content), SetTextLocale) = {}
                               => r.text = None
                  /\ f.kind = "dir" => (r.audio = None /\ r.text = None)
         /\ app.audio_locale = Last(op.refreshes).audio
         /\ app.text_locale = Last(op.refreshes).text

C24_Witness ==
    /\ op.name = "TickUI"
    /\ Len(op.refreshes) = 1
    /\ op.refreshes[1].path = ConfigWtf
    /\ files[ConfigWtf] = File(Render(<<FormatText(EnUS), OtherLine>>, "lf"))
    /\ app.audio_locale = None
    /\ app.text_locale = Some(EnUS)

\* C25: a re-parse of a file under 8192 bytes caches, for each of the two
\* keys, the quoted text of the last line of the file that starts with the
\* key and holds two quotes, whatever the lines of the other key are.
C25_LastLineWins ==
    (op.name = "TickUI" /\ op.refreshes # <<>>)
      => \A i \in 1..Len(op.refreshes) :
           LET r == op.refreshes[i]
               f == files[r.path]
               ls == Lines(f.content)
               audio == KeyLines(ls, SetAudioLocale)
               text == KeyLines(ls, SetTextLocale)
           IN  (f.kind = "file" /\ ByteLen(f.content) < SizeGuard)
                 => /\ audio # {}
                         => r.audio = ExtractQuoted(Trim(ls[CHOOSE k \in audio :
                                                           \A j \in audio : j <= k]))
                    /\ text # {}
                         => r.text = ExtractQuoted(Trim(ls[CHOOSE k \in text :
                                                          \A j \in text : j <= k]))

C25_Witness ==
    /\ op.name = "TickUI"
    /\ Len(op.refreshes) = 1
    /\ op.refreshes[1].path = ConfigWtf
    /\ files[ConfigWtf] = File(Render(<<FormatAudio(EnUS), FormatAudio(DeDE)>>, "lf"))
    /\ app.audio_locale = Some(DeDE)
    /\ app.text_locale = None

(***************************************************************************)
(* Further claims about the Update button, under SpecCfg.                  *)
(***************************************************************************)
KeyCount(ls, key) == Cardinality({ i \in 1..Len(ls) : StartsWith(Trim(ls[i]), key) })

\* C26: after a successful Update with locale L, every line of the file that
\* starts with a locale key is exactly that key's line for L, each key has
\* at least one line, and the file holds as many lines of a key as before
\* (one, when it held none): every duplicate is rewritten, none is left with
\* its old value.
C26_AllMatchesRewritten ==
    UpdatedOk =>
        LET old == Lines(PreContent)
            new == Lines(NowContent)
        IN  /\ \A i \in 1..Len(new) :
                 /\ StartsWith(Trim(new[i]), SetAudioLocale)
                      => new[i] = FormatAudio(PreLocale)
                 /\ StartsWith(Trim(new[i]), SetTextLocale)
                      => new[i] = FormatText(PreLocale)
            /\ \A key \in {SetAudioLocale, SetTextLocale} :
                 KeyCount(new, key)
                   = IF KeyCount(old, key) = 0 THEN 1 ELSE KeyCount(old, key)

C26_Witness ==
    /\ UpdatedOk
    /\ Lines(PreContent) = <<TextLine, BareTextLine>>
    /\ PreLocale = <<"a", "b">>
    /\ Lines(NowContent)
         = <<FormatText(PreLocale), FormatText(PreLocale), FormatAudio(PreLocale)>>

(***************************************************************************)
(* Further claims about the change watcher, under SpecWatch.               *)
(***************************************************************************)
WatcherFailed == Status("File watcher error: <cause>")

\* C27: a drain whose watcher events hold an error and no event about the
\* configured path changes the status to the watcher error and nothing else:
\* the cached values, the cache key, the run-active flag, the watched paths
\* and the files stay as they were, and the next frame is due; and the
\* handling of one error, whether a run is active or not, is the change of
\* the status alone.
C27_WatcherErrorIsStatusOnly ==
    /\ [](\A active \in BOOLEAN :
            LET s == [Store EXCEPT !.app.run_active = active]
            IN  DrainWatcher(s, <<WatchError>>)
                  = SetStatus(s, "File watcher error: <cause>"))
    /\ [][(/\ DrainStep
           /\ run_chan = <<>>
           /\ \E i \in 1..Len(watch_chan) : ~watch_chan[i].ok
           /\ \A i \in 1..Len(watch_chan) : ~AboutConfig(i))
            => /\ app' = [app EXCEPT !.status = WatcherFailed]
               /\ watched' = watched
               /\ files' = files
               /\ watch_chan' = <<>>
               /\ tick_pc' = "ui"]_vars

C27_Witness ==
    /\ op.name = "TickDrain"
    /\ op.events = <<WatchError>>
    /\ app.status = WatcherFailed
    /\ app.last_config_path = Some(ConfigWtf)
    /\ watched = {ConfigWtf}
    /\ files[ConfigWtf] = File(EnUSConfig)
    /\ app.audio_locale = Some(DeDE)

(***************************************************************************)
(* Further claims about the run channel, under SpecRun.                    *)
(***************************************************************************)
\* C28: whenever the run-active flag is clear, at the tick boundaries and
\* between them, the run channel is empty and no worker exists; FINISHED is
\* queued only as the last message, by a worker that has returned, while the
\* flag is set; so the frame that starts a run finds the channel empty, and
\* what later drains take was sent by the worker of that run.
C28_NoStaleMessages ==
    /\ [](/\ ~app.run_active => (run_chan = <<>> /\ workers = <<>>)
          /\ \A i \in 1..Len(run_chan) :
               run_chan[i] = Finished
                 => (i = Len(run_chan) /\ workers = <<>> /\ app.run_active))
    /\ [][(FrameStep /\ ~app.run_active /\ app'.run_active)
            => /\ run_chan = <<>>
               /\ run_chan' = <<>>
               /\ workers = <<>>
               /\ Len(workers') = 1]_vars

C28_Witness ==
    /\ op.name = "TickDrain"
    /\ tick_pc = "ui"
    /\ ~app.run_active
    /\ drained = <<FailedA, Finished>>
    /\ run_chan = <<>>
    /\ workers = <<>>

\* C29: the locale a successful Update writes into the file, which every
\* line of a key then carries, is one to four ASCII letters.
C29_WrittenLocaleValid ==
    UpdatedOk =>
        /\ ValidLocale(PreLocale)
        /\ \A i \in 1..Len(Lines(NowContent)) :
             LET line == Lines(NowContent)[i] IN
             /\ IsAudioKey(line) => \E l \in {PreLocale} : line = FormatAudio(l)
             /\ IsTextKey(line) => \E l \in {PreLocale} : line = FormatText(l)

\* C30: when the launch of A or of B has failed, the drain that takes
\* FINISHED comes after a drain that ended on the failure message, so that
\* the failure was the status at the end of a tick before the completed
\* status replaces it.
C30_FailureShown ==
    [][(/\ DrainStep
        /\ HasFinished(run_chan)
        /\ spawned # <<>>
        /\ Len(spawned) <= 2
        /\ ~Last(spawned).ok)
         => /\ drained # <<>>
            /\ Last(drained) \in {FailedA, FailedB}]_vars

\* C31: after a successful Update the file is still under 8192 bytes: the
\* refresh that follows the write caches no too-large sentinel, and an
\* Update called again on the result is not refused as too large.
C31_UpdateKeepsGuard ==
    UpdatedOk =>
        /\ ByteLen(NowContent) < SizeGuard
        /\ app.audio_locale # Some(FileTooLarge)
        /\ app.text_locale # Some(FileTooLarge)
        /\ app.config_wtf_path = PreCfg => UpdateResult(Store) # ErrTooLarge

====
